---- MODULE Spec2Model ----
(***************************************************************************)
(* Model of src/auth.rs: the Auth credential provider.  A provider holds   *)
(* an optional cached AuthToken and the name of a refresh command; each    *)
(* access_token() call either reuses the cached token or runs the command  *)
(* and parses "<token> <lifetime>" from its standard output.               *)
(*                                                                         *)
(* Strings that the code splits, parses or concatenates are sequences of   *)
(* one-character strings.  Time is an Instant counted in ticks of          *)
(* 1/TicksPerSec seconds; Duration::as_secs truncates to whole seconds.    *)
(***************************************************************************)
EXTENDS Integers, Sequences, FiniteSets, TLC

VARIABLES auth_type, token, refresh_cmd, now, last, e2e

vars == <<auth_type, token, refresh_cmd, now, last, e2e>>

----------------------------------------------------------------------------
(* Bounds of the model *)

\* clock resolution: ticks per second (Instant is finer than one second)
TicksPerSec == 2
\* the clock runs from 0 to MaxSecs seconds
MaxSecs == 6

MaxTime == MaxSecs * TicksPerSec

----------------------------------------------------------------------------
(* Option and Result *)

None == <<>>
Some(v) == <<v>>
IsSome(o) == Len(o) = 1
Unwrap(o) == o[1]

Ok(v) == [ok |-> TRUE, val |-> v]
Err(e) == [ok |-> FALSE, err |-> e]

----------------------------------------------------------------------------
(* Text helpers: str::split_whitespace and str::parse::<i64> *)

Whitespace == {" ", "\t", "\n", "\r"}

Digits == <<"0", "1", "2", "3", "4", "5", "6", "7", "8", "9">>

IsDigit(c) == \E i \in 1..10 : Digits[i] = c

DigitVal(c) == (CHOOSE i \in 1..10 : Digits[i] = c) - 1

RECURSIVE SplitFrom(_, _, _)
SplitFrom(s, cur, acc) ==
    IF s = <<>>
    THEN IF cur = <<>> THEN acc ELSE Append(acc, cur)
    ELSE IF Head(s) \in Whitespace
         THEN SplitFrom(Tail(s), <<>>, IF cur = <<>> THEN acc ELSE Append(acc, cur))
         ELSE SplitFrom(Tail(s), Append(cur, Head(s)), acc)

\* the non-empty maximal runs of non-whitespace characters, in order
split_whitespace(s) == SplitFrom(s, <<>>, <<>>)

RECURSIVE StripZeros(_)
StripZeros(d) ==
    IF Len(d) > 1 /\ Head(d) = "0" THEN StripZeros(Tail(d)) ELSE d

RECURSIVE DigitsLeq(_, _)
\* a <= b for two digit strings of the same length
DigitsLeq(a, b) ==
    IF a = <<>> THEN TRUE
    ELSE IF DigitVal(Head(a)) # DigitVal(Head(b))
         THEN DigitVal(Head(a)) < DigitVal(Head(b))
         ELSE DigitsLeq(Tail(a), Tail(b))

\* the decimal digits of i64::MAX = 9223372036854775807
I64MaxDigits ==
    <<"9","2","2","3","3","7","2","0","3","6","8","5","4","7","7","5","8","0","7">>
\* the decimal digits of -i64::MIN = 9223372036854775808
I64MinDigits ==
    <<"9","2","2","3","3","7","2","0","3","6","8","5","4","7","7","5","8","0","8">>

FitsI64(d, neg) ==
    LET m == StripZeros(d)
    IN  \/ Len(m) < Len(I64MaxDigits)
        \/ /\ Len(m) = Len(I64MaxDigits)
           /\ DigitsLeq(m, IF neg THEN I64MinDigits ELSE I64MaxDigits)

RECURSIVE DigitsValue(_, _)
DigitsValue(d, acc) ==
    IF d = <<>> THEN acc ELSE DigitsValue(Tail(d), acc * 10 + DigitVal(Head(d)))

\* i64::from_str: an optional sign, then one or more decimal digits, in range
parse_i64(s) ==
    IF s = <<>> THEN Err("ParseIntError")
    ELSE LET signed == Head(s) \in {"+", "-"}
             neg == Head(s) = "-"
             d == IF signed THEN Tail(s) ELSE s
         IN  IF d = <<>> \/ (\E i \in 1..Len(d) : ~IsDigit(d[i]))
             THEN Err("ParseIntError")
             ELSE IF ~FitsI64(d, neg) THEN Err("ParseIntError")
             ELSE Ok(IF neg THEN 0 - DigitsValue(d, 0) ELSE DigitsValue(d, 0))

----------------------------------------------------------------------------
(* What running the refresh command can produce *)

SpawnFailed == [kind |-> "SpawnFailed", text |-> <<>>]
NotUtf8 == [kind |-> "NotUtf8", text |-> <<>>]
Stdout(s) == [kind |-> "Stdout", text |-> s]
\* recorded for a call that did not run the command
NotRun == [kind |-> "NotRun", text |-> <<>>]

Tok1 == <<"t","o","k","1">>
Tok2 == <<"t","o","k","2">>
Abc123 == <<"a","b","c","1","2","3">>

OutTok1 == Tok1 \o <<" ","1","0">>
OutTok2 == Tok2 \o <<" ","1","0">>

Texts ==
    { OutTok1, OutTok2,
      Tok1 \o <<" ","1","0","\n">>,
      Abc123 \o <<" ","3","0","0">>,
      Abc123 \o <<" ","-","1">>,
      Abc123 \o <<" ","0">>,
      Abc123,
      Abc123 \o <<" ","n","o","t","a","n","u","m","b","e","r">>,
      <<>>,
      <<"a"," ","b"," ","c">>,
      <<"t"," ","1"," ","x">>,
      <<"t"," ","1">>,
      <<"t","\t","+","2">>,
      <<"t"," ","3">>,
      <<"t"," ">> \o I64MinDigits }

Outcomes == {SpawnFailed, NotUtf8} \cup { Stdout(s) : s \in Texts }

----------------------------------------------------------------------------
(* ApiAuth *)

Bearer == "Bearer"

to_string_lowercase(a) == IF a = Bearer THEN <<"b","e","a","r","e","r">> ELSE <<>>

\* impl ToString for ApiAuth
to_string(a) == IF a = Bearer THEN <<"B","e","a","r","e","r">> ELSE <<>>

----------------------------------------------------------------------------
(* LifeSpan *)

Indefinite == [kind |-> "Indefinite", secs |-> 0]
SingleUse == [kind |-> "SingleUse", secs |-> 0]
Seconds(n) == [kind |-> "Seconds", secs |-> n]

LifeSpanFromNonPositive(value) ==
    IF value <= 0 THEN Indefinite ELSE Seconds(value)

\* impl From<i64> for LifeSpan
LifeSpanFrom(value) ==
    IF value < 0 THEN Indefinite
    ELSE IF value = 0 THEN SingleUse
    ELSE Seconds(value)

----------------------------------------------------------------------------
(* AuthToken and Header *)

AuthToken(tok, lifespan, last_refreshed) ==
    [token |-> tok, lifespan |-> lifespan, last_refreshed |-> last_refreshed]

Header(name, value) == <<name, value>>

\* Instant::elapsed().as_secs(): whole seconds since t.last_refreshed
elapsed_secs(t, at) == (at - t.last_refreshed) \div TicksPerSec

----------------------------------------------------------------------------
(* Auth *)

refresh_token_lenient(cmd, out, at) ==
    IF out.kind = "SpawnFailed" THEN Err("IoError")
    ELSE IF out.kind = "NotUtf8" THEN Err("FromUtf8Error")
    ELSE LET token_info == split_whitespace(out.text)
         IN  IF Len(token_info) < 2
             THEN Err("Invalid token command output")
             ELSE LET lifetime == parse_i64(token_info[2])
                  IN  IF ~lifetime.ok THEN Err(lifetime.err)
                      ELSE Ok(AuthToken(token_info[1], LifeSpanFrom(lifetime.val), at))

\* Auth::refresh_token, given what the command produced and the current time
refresh_token(cmd, out, at) ==
    IF out.kind = "SpawnFailed" THEN Err("IoError")
    ELSE IF out.kind = "NotUtf8" THEN Err("FromUtf8Error")
    ELSE LET token_info == split_whitespace(out.text)
         IN  IF Len(token_info) # 2
             THEN Err("Invalid token command output")
             ELSE LET lifetime == parse_i64(token_info[2])
                  IN  IF ~lifetime.ok THEN Err(lifetime.err)
                      ELSE Ok(AuthToken(token_info[1], LifeSpanFrom(lifetime.val), at))

NeedsRefreshGe(cached, at) ==
    IF ~IsSome(cached) THEN TRUE
    ELSE LET t == Unwrap(cached)
         IN  CASE t.lifespan.kind = "Indefinite" -> FALSE
               [] t.lifespan.kind = "SingleUse" -> TRUE
               [] OTHER -> elapsed_secs(t, at) >= t.lifespan.secs \div 2

NeedsRefreshNoHalf(cached, at) ==
    IF ~IsSome(cached) THEN TRUE
    ELSE LET t == Unwrap(cached)
         IN  CASE t.lifespan.kind = "Indefinite" -> FALSE
               [] t.lifespan.kind = "SingleUse" -> TRUE
               [] OTHER -> elapsed_secs(t, at) > t.lifespan.secs

NeedsRefreshIndefinite(cached, at) ==
    IF ~IsSome(cached) THEN TRUE
    ELSE LET t == Unwrap(cached)
         IN  CASE t.lifespan.kind = "Indefinite" -> elapsed_secs(t, at) > 0
               [] t.lifespan.kind = "SingleUse" -> TRUE
               [] OTHER -> elapsed_secs(t, at) > t.lifespan.secs \div 2

NeedsRefreshSingleUseAged(cached, at) ==
    IF ~IsSome(cached) THEN TRUE
    ELSE LET t == Unwrap(cached)
         IN  CASE t.lifespan.kind = "Indefinite" -> FALSE
               [] t.lifespan.kind = "SingleUse" -> elapsed_secs(t, at) > 0
               [] OTHER -> elapsed_secs(t, at) > t.lifespan.secs \div 2

\* which arms of the match in Auth::get_token call refresh_token
NeedsRefresh(cached, at) ==
    IF ~IsSome(cached) THEN TRUE
    ELSE LET t == Unwrap(cached)
         IN  CASE t.lifespan.kind = "Indefinite" -> FALSE
               [] t.lifespan.kind = "SingleUse" -> TRUE
               [] OTHER -> elapsed_secs(t, at) > t.lifespan.secs \div 2

get_token_fallback(cached, cmd, out, at) ==
    IF NeedsRefresh(cached, at)
    THEN LET r == refresh_token(cmd, out, at)
         IN  IF r.ok
             THEN [ret |-> Ok(r.val.token), token |-> Some(r.val),
                   spawned |-> 1, out |-> out]
             ELSE IF IsSome(cached)
                  THEN [ret |-> Ok(Unwrap(cached).token), token |-> cached,
                        spawned |-> 1, out |-> out]
                  ELSE [ret |-> Err(r.err), token |-> cached,
                        spawned |-> 1, out |-> out]
    ELSE [ret |-> Ok(Unwrap(cached).token), token |-> cached,
          spawned |-> 0, out |-> NotRun]

get_token_take(cached, cmd, out, at) ==
    IF NeedsRefresh(cached, at)
    THEN LET r == refresh_token(cmd, out, at)
         IN  IF r.ok
             THEN [ret |-> Ok(r.val.token), token |-> Some(r.val),
                   spawned |-> 1, out |-> out]
             ELSE [ret |-> Err(r.err), token |-> None,
                   spawned |-> 1, out |-> out]
    ELSE [ret |-> Ok(Unwrap(cached).token), token |-> cached,
          spawned |-> 0, out |-> NotRun]

get_token_no_store(cached, cmd, out, at) ==
    IF NeedsRefresh(cached, at)
    THEN LET r == refresh_token(cmd, out, at)
         IN  IF r.ok
             THEN [ret |-> Ok(r.val.token), token |-> cached,
                   spawned |-> 1, out |-> out]
             ELSE [ret |-> Err(r.err), token |-> cached,
                   spawned |-> 1, out |-> out]
    ELSE [ret |-> Ok(Unwrap(cached).token), token |-> cached,
          spawned |-> 0, out |-> NotRun]

get_token_keep_issued(cached, cmd, out, at) ==
    IF NeedsRefresh(cached, at)
    THEN LET r == refresh_token(cmd, out, at)
         IN  IF r.ok
             THEN [ret |-> Ok(r.val.token),
                   token |-> IF IsSome(cached)
                             THEN Some([r.val EXCEPT !.last_refreshed =
                                            Unwrap(cached).last_refreshed])
                             ELSE Some(r.val),
                   spawned |-> 1, out |-> out]
             ELSE [ret |-> Err(r.err), token |-> cached,
                   spawned |-> 1, out |-> out]
    ELSE [ret |-> Ok(Unwrap(cached).token), token |-> cached,
          spawned |-> 0, out |-> NotRun]

get_token_no_replace(cached, cmd, out, at) ==
    IF NeedsRefresh(cached, at)
    THEN LET r == refresh_token(cmd, out, at)
         IN  IF r.ok
             THEN [ret |-> Ok(r.val.token),
                   token |-> IF IsSome(cached) THEN cached ELSE Some(r.val),
                   spawned |-> 1, out |-> out]
             ELSE [ret |-> Err(r.err), token |-> cached,
                   spawned |-> 1, out |-> out]
    ELSE [ret |-> Ok(Unwrap(cached).token), token |-> cached,
          spawned |-> 0, out |-> NotRun]

get_token_retry(cached, cmd, out, at) ==
    IF NeedsRefresh(cached, at)
    THEN LET r == refresh_token(cmd, out, at)
         IN  IF r.ok
             THEN [ret |-> Ok(r.val.token), token |-> Some(r.val),
                   spawned |-> 1, out |-> out]
             ELSE [ret |-> Err(r.err), token |-> cached,
                   spawned |-> 2, out |-> out]
    ELSE [ret |-> Ok(Unwrap(cached).token), token |-> cached,
          spawned |-> 0, out |-> NotRun]

get_token_touch(cached, cmd, out, at) ==
    IF NeedsRefresh(cached, at)
    THEN LET r == refresh_token(cmd, out, at)
         IN  IF r.ok
             THEN [ret |-> Ok(r.val.token), token |-> Some(r.val),
                   spawned |-> 1, out |-> out]
             ELSE [ret |-> Err(r.err), token |-> cached,
                   spawned |-> 1, out |-> out]
    ELSE [ret |-> Ok(Unwrap(cached).token),
          token |-> Some([Unwrap(cached) EXCEPT !.last_refreshed = at]),
          spawned |-> 0, out |-> NotRun]

\* Auth::get_token on a provider whose self.token is cached: the returned
\* Result<String>, the new self.token, how many times refresh_token ran,
\* and what the command produced when it ran
get_token(cached, cmd, out, at) ==
    IF NeedsRefresh(cached, at)
    THEN LET r == refresh_token(cmd, out, at)
         IN  IF r.ok
             THEN [ret |-> Ok(r.val.token), token |-> Some(r.val),
                   spawned |-> 1, out |-> out]
             ELSE [ret |-> Err(r.err), token |-> cached,
                   spawned |-> 1, out |-> out]
    ELSE [ret |-> Ok(Unwrap(cached).token), token |-> cached,
          spawned |-> 0, out |-> NotRun]

access_token_unguarded(cached, cmd, scheme, out, at) ==
    LET g == get_token(cached, cmd, out, at)
    IN  IF g.ret.ok
        THEN [g EXCEPT !.ret =
                 Ok(Some(Header("Authorization",
                                to_string(scheme) \o <<" ">> \o g.ret.val)))]
        ELSE g

\* Auth::access_token: as get_token, with ret the Result<Option<Header>>
access_token(cached, cmd, scheme, out, at) ==
    IF cmd # ""
    THEN LET g == get_token(cached, cmd, out, at)
         IN  IF g.ret.ok
             THEN [g EXCEPT !.ret =
                      Ok(Some(Header("Authorization",
                                     to_string(scheme) \o <<" ">> \o g.ret.val)))]
             ELSE g
    ELSE [ret |-> Ok(None), token |-> cached, spawned |-> 0, out |-> NotRun]

----------------------------------------------------------------------------
(* The end-to-end scenario observer: it follows a run that starts with a   *)
(* call whose command prints "tok1 10", then a call 4 seconds after that   *)
(* one, then a call 6 seconds after the first whose command prints         *)
(* "tok2 10", and records what each of the three calls returned.           *)

E2EOff == [on |-> FALSE, t0 |-> 0, seen |-> <<>>]

E2ENext(e, cmd, out, at, r) ==
    LET obs == [ret |-> r.ret, spawned |-> r.spawned]
    IN  IF ~e.on \/ cmd = "" THEN E2EOff
        ELSE CASE Len(e.seen) = 0 /\ out = Stdout(OutTok1)
                    -> [on |-> TRUE, t0 |-> at, seen |-> <<obs>>]
               [] Len(e.seen) = 1 /\ at = e.t0 + 4 * TicksPerSec
                    -> [e EXCEPT !.seen = Append(@, obs)]
               [] Len(e.seen) = 2 /\ at = e.t0 + 6 * TicksPerSec
                                  /\ out = Stdout(OutTok2)
                    -> [e EXCEPT !.seen = Append(@, obs)]
               [] OTHER -> E2EOff

----------------------------------------------------------------------------
(* The state machine *)

RefreshCmds == {"", "get-token"}

NoCall ==
    [called |-> FALSE, pre |-> None, at |-> 0, spawned |-> 0,
     out |-> NotRun, ret |-> Ok(None)]

\* Auth::new
Init ==
    /\ auth_type = Bearer
    /\ token = None
    /\ refresh_cmd \in RefreshCmds
    /\ now = 0
    /\ last = NoCall
    /\ e2e = [on |-> TRUE, t0 |-> 0, seen |-> <<>>]

\* one call of Auth::access_token, the refresh command producing out if run
AccessToken ==
    \E out \in Outcomes :
        LET r == access_token(token, refresh_cmd, auth_type, out, now)
        IN  /\ token' = r.token
            /\ last' = [called |-> TRUE, pre |-> token, at |-> now,
                        spawned |-> r.spawned, out |-> r.out, ret |-> r.ret]
            /\ e2e' = E2ENext(e2e, refresh_cmd, out, now, r)
            /\ UNCHANGED <<auth_type, refresh_cmd, now>>

\* time passes between calls
Tick ==
    /\ now < MaxTime
    /\ now' = now + 1
    /\ UNCHANGED <<auth_type, token, refresh_cmd, last, e2e>>

Next == AccessToken \/ Tick

Spec == Init /\ [][Next]_vars

----------------------------------------------------------------------------
(* Vocabulary of the properties below: all of it reads the record of the   *)
(* latest call (last) against the provider's state after it.               *)

\* the header access_token builds for credential v
BearerHeader(v) == Header("Authorization", <<"B","e","a","r","e","r"," ">> \o v)

\* the latest call found a cached token with this kind of lifespan
PreKind(k) ==
    /\ last.called
    /\ refresh_cmd # ""
    /\ IsSome(last.pre)
    /\ Unwrap(last.pre).lifespan.kind = k

\* ticks between the issue of the token the latest call found and that call
PreAge == last.at - Unwrap(last.pre).last_refreshed

\* the latest call returned a header carrying the token it found cached
ReusedCached ==
    /\ last.ret = Ok(Some(BearerHeader(Unwrap(last.pre).token)))
    /\ token = last.pre

\* what the refresh of the latest call came to
LastRefresh == refresh_token(refresh_cmd, last.out, last.at)

\* the latest call ran the refresh command, and the refresh failed / succeeded
RefreshFailed == last.called /\ last.spawned = 1 /\ ~LastRefresh.ok
RefreshSucceeded == last.called /\ last.spawned = 1 /\ LastRefresh.ok

----------------------------------------------------------------------------
\* C1 as stated: with a cached Seconds(n) token, a call at elapsed time
\* t < n/2 runs no refresh and reuses the cached token, and a call at
\* elapsed time t > n/2 runs the refresh exactly once.
C1_Original ==
    PreKind("Seconds") =>
        LET n == Unwrap(last.pre).lifespan.secs
        IN  /\ 2 * PreAge < n * TicksPerSec => last.spawned = 0 /\ ReusedCached
            /\ 2 * PreAge > n * TicksPerSec => last.spawned = 1

\* C1 amended: with a cached Seconds(n) token, a call at elapsed time
\* t < n/2 runs no refresh and reuses the cached token, and a call at
\* elapsed time t >= floor(n/2) + 1 seconds runs the refresh exactly once.
C1_HalfLife ==
    PreKind("Seconds") =>
        LET n == Unwrap(last.pre).lifespan.secs
        IN  /\ 2 * PreAge < n * TicksPerSec => last.spawned = 0 /\ ReusedCached
            /\ PreAge >= (n \div 2 + 1) * TicksPerSec => last.spawned = 1

C1_Witness ==
    /\ PreKind("Seconds")
    /\ PreAge >= (Unwrap(last.pre).lifespan.secs \div 2 + 1) * TicksPerSec
    /\ Unwrap(last.pre).lifespan.secs >= 2
    /\ last.spawned = 1

----------------------------------------------------------------------------
\* C2: when the refresh run by a call fails, the call returns that error
\* and no header, whatever token was cached.
C2_FailurePropagates ==
    RefreshFailed => ~last.ret.ok /\ last.ret.err = LastRefresh.err

C2_Witness ==
    /\ RefreshFailed
    /\ PreKind("Seconds")
    /\ ~last.ret.ok

----------------------------------------------------------------------------
\* C3: a call whose refresh fails leaves the cached token as it was before
\* the call, and the cached token differs from the one a call found only
\* when that call's refresh succeeded.
C3_FailureKeepsCache ==
    /\ RefreshFailed => token = last.pre
    /\ (last.called /\ token # last.pre) => RefreshSucceeded

C3_Witness ==
    /\ RefreshFailed
    /\ PreKind("Seconds")
    /\ token = last.pre

----------------------------------------------------------------------------
\* C4 as stated: when the cached token is SingleUse and the refresh fails,
\* the provider has no cached token afterwards.
C4_Original ==
    (PreKind("SingleUse") /\ RefreshFailed) => token = None

\* C4 amended: when the cached token is SingleUse and the refresh fails,
\* the provider still holds that same SingleUse token afterwards, and the
\* next call runs the refresh again.
C4_SingleUseFailure ==
    [][ (PreKind("SingleUse") /\ RefreshFailed) =>
            /\ token = last.pre
            /\ AccessToken => last'.spawned = 1 /\ last'.pre = last.pre ]_vars

C4_Witness ==
    /\ PreKind("SingleUse")
    /\ RefreshFailed
    /\ IsSome(token)
    /\ Unwrap(token).lifespan = SingleUse

----------------------------------------------------------------------------
\* C5: once the cached token is Indefinite it stays the cached token, and
\* every call that finds it runs no refresh and returns a header carrying
\* its credential, however much time has passed.
C5_IndefiniteReused ==
    /\ [](PreKind("Indefinite") => last.spawned = 0 /\ ReusedCached)
    /\ [][ (IsSome(token) /\ Unwrap(token).lifespan = Indefinite)
              => token' = token ]_vars

C5_Witness ==
    /\ PreKind("Indefinite")
    /\ PreAge >= 3 * TicksPerSec
    /\ last.spawned = 0

----------------------------------------------------------------------------
\* C6: a call that finds a SingleUse token cached runs the refresh exactly
\* once, whatever the time since the token was issued, zero included.
C6_SingleUseRefreshes ==
    PreKind("SingleUse") => last.spawned = 1

C6_Witness ==
    /\ PreKind("SingleUse")
    /\ PreAge = 0
    /\ last.spawned = 1

----------------------------------------------------------------------------
\* C7: with a non-empty refresh command and nothing cached, a call runs the
\* refresh exactly once and, when it succeeds, returns a header whose
\* credential is the first field of the output and caches that token.
C7_FirstCall ==
    (last.called /\ refresh_cmd # "" /\ last.pre = None) =>
        /\ last.spawned = 1
        /\ LastRefresh.ok =>
              LET first == split_whitespace(last.out.text)[1]
              IN  /\ last.ret = Ok(Some(BearerHeader(first)))
                  /\ IsSome(token)
                  /\ Unwrap(token).token = first
                  /\ Unwrap(token).last_refreshed = last.at

C7_Witness ==
    /\ last.called
    /\ refresh_cmd # ""
    /\ last.pre = None
    /\ LastRefresh.ok
    /\ last.ret = Ok(Some(BearerHeader(Abc123)))

----------------------------------------------------------------------------
\* C8: with an empty refresh command every call returns Ok(None), runs no
\* refresh, and the cached token stays empty.
C8_EmptyCommand ==
    refresh_cmd = "" =>
        /\ token = None
        /\ last.called => last.ret = Ok(None) /\ last.spawned = 0

C8_Witness ==
    /\ refresh_cmd = ""
    /\ last.called
    /\ last.at > 0
    /\ last.ret = Ok(None)

----------------------------------------------------------------------------
\* C9: in the end-to-end run the first call returns ("Authorization",
\* "Bearer tok1"), the call 4 seconds after issuance runs no refresh and
\* returns the same, and the call at 6 seconds, the command now printing
\* "tok2 10", runs one refresh and returns ("Authorization", "Bearer tok2").
C9_EndToEnd ==
    /\ Len(e2e.seen) >= 1 =>
          e2e.seen[1].ret = Ok(Some(<<"Authorization",
                <<"B","e","a","r","e","r"," ","t","o","k","1">> >>))
    /\ Len(e2e.seen) >= 2 =>
          /\ e2e.seen[2].spawned = 0
          /\ e2e.seen[2].ret = e2e.seen[1].ret
    /\ Len(e2e.seen) >= 3 =>
          /\ e2e.seen[3].spawned = 1
          /\ e2e.seen[3].ret = Ok(Some(<<"Authorization",
                <<"B","e","a","r","e","r"," ","t","o","k","2">> >>))

C9_Witness == Len(e2e.seen) = 3

----------------------------------------------------------------------------
\* lifetimes -MaxLifetime..MaxLifetime are classified directly
MaxLifetime == 4

\* C10: every integer lifetime maps to exactly one variant: negative to
\* Indefinite, zero to SingleUse, positive n to Seconds(n); a successful
\* refresh reporting 300 caches Seconds(300), -1 Indefinite, 0 SingleUse.
C10_Classification ==
    /\ \A v \in (0 - MaxLifetime)..MaxLifetime :
          /\ v < 0 => LifeSpanFrom(v) = Indefinite
          /\ v = 0 => LifeSpanFrom(v) = SingleUse
          /\ v > 0 => LifeSpanFrom(v) = Seconds(v)
          /\ Cardinality({ l \in {Indefinite, SingleUse, Seconds(v)} :
                             l = LifeSpanFrom(v) }) = 1
    /\ RefreshSucceeded =>
          LET fields == split_whitespace(last.out.text)
              cached == Unwrap(token).lifespan
          IN  /\ fields[2] = <<"3","0","0">> => cached = Seconds(300)
              /\ fields[2] = <<"-","1">> => cached = Indefinite
              /\ fields[2] = <<"0">> => cached = SingleUse
              /\ cached.kind \in {"Indefinite", "SingleUse", "Seconds"}
              /\ cached.kind = "Seconds" =>
                    cached.secs > 0 /\ parse_i64(fields[2]) = Ok(cached.secs)

C10_Witness ==
    /\ RefreshSucceeded
    /\ last.out = Stdout(Abc123 \o <<" ","3","0","0">>)
    /\ Unwrap(token).lifespan = Seconds(300)

----------------------------------------------------------------------------
\* an optional sign followed by one or more decimal digits
IsSignedInteger(f) ==
    /\ f # <<>>
    /\ LET d == IF Head(f) \in {"+", "-"} THEN Tail(f) ELSE f
       IN  /\ d # <<>>
           /\ \A i \in 1..Len(d) :
                 d[i] \in {"0", "1", "2", "3", "4", "5", "6", "7", "8", "9"}

\* a signed integer whose value lies in the 64-bit range
IsI64(f) ==
    /\ IsSignedInteger(f)
    /\ LET neg == Head(f) = "-"
       IN  FitsI64(IF Head(f) \in {"+", "-"} THEN Tail(f) ELSE f, neg)

\* the latest call ran the command, which printed text
RanWithText == last.called /\ last.spawned = 1 /\ last.out.kind = "Stdout"

\* the latest call's refresh produced a token whose value is v
ProducedToken(v) ==
    /\ last.ret = Ok(Some(BearerHeader(v)))
    /\ IsSome(token)
    /\ Unwrap(token).token = v
    /\ Unwrap(token).last_refreshed = last.at

\* the latest call's refresh produced an error and no token
ProducedNoToken == ~last.ret.ok /\ token = last.pre

\* C11 as stated: a refresh succeeds if and only if the output splits on
\* whitespace into exactly two fields and the second is a signed integer,
\* and then the token value is the first field; otherwise it fails and
\* produces no token.
C11_Original ==
    RanWithText =>
        LET f == split_whitespace(last.out.text)
        IN  IF Len(f) = 2 /\ IsSignedInteger(f[2])
            THEN ProducedToken(f[1])
            ELSE ProducedNoToken

\* C11 amended: a refresh succeeds if and only if the output splits on
\* whitespace into exactly two fields and the second is a signed integer
\* in the 64-bit range, and then the token value is the first field;
\* otherwise it fails and produces no token.
C11_TwoFields ==
    RanWithText =>
        LET f == split_whitespace(last.out.text)
        IN  IF Len(f) = 2 /\ IsI64(f[2])
            THEN ProducedToken(f[1])
            ELSE ProducedNoToken

C11_Witness ==
    /\ RanWithText
    /\ last.out = Stdout(Tok1 \o <<" ","1","0","\n">>)
    /\ ProducedToken(Tok1)

----------------------------------------------------------------------------
\* C12: every header a call returns is named "Authorization" and its value
\* is "Bearer <v>", v the value of the token cached when the call returns.
C12_HeaderFromCache ==
    (last.called /\ last.ret.ok /\ last.ret.val # None) =>
        /\ IsSome(token)
        /\ Unwrap(last.ret.val)[1] = "Authorization"
        /\ Unwrap(last.ret.val)[2] =
              <<"B","e","a","r","e","r"," ">> \o Unwrap(token).token

C12_Witness ==
    /\ last.called
    /\ last.ret.ok
    /\ last.ret.val # None
    /\ last.spawned = 1
    /\ IsSome(last.pre)
    /\ Unwrap(last.pre).token # Unwrap(token).token

----------------------------------------------------------------------------
\* C13: a call that finds a Seconds(n) token refreshes if and only if the
\* whole seconds elapsed since it was issued exceed floor(n/2); at exactly
\* floor(n/2) it reuses, and for n = 1 it reuses only at zero whole seconds.
C13_Threshold ==
    PreKind("Seconds") =>
        LET n == Unwrap(last.pre).lifespan.secs
            whole == PreAge \div TicksPerSec
        IN  /\ whole > n \div 2 => last.spawned = 1
            /\ whole <= n \div 2 => last.spawned = 0 /\ ReusedCached
            /\ n = 1 => (last.spawned = 0 <=> whole = 0)

C13_Witness ==
    /\ PreKind("Seconds")
    /\ Unwrap(last.pre).lifespan.secs = 3
    /\ PreAge \div TicksPerSec = 1
    /\ last.spawned = 0

----------------------------------------------------------------------------
\* C14: after a successful refresh the cached token is exactly the new one,
\* value and lifespan from the output and issued at the time of the
\* refresh, whatever token was cached before.
C14_Wholesale ==
    RefreshSucceeded =>
        LET f == split_whitespace(last.out.text)
            v == parse_i64(f[2]).val
        IN  token = Some([token |-> f[1],
                          lifespan |-> IF v < 0 THEN Indefinite
                                       ELSE IF v = 0 THEN SingleUse
                                       ELSE Seconds(v),
                          last_refreshed |-> last.at])

C14_Witness ==
    /\ RefreshSucceeded
    /\ PreKind("Seconds")
    /\ Unwrap(last.pre).last_refreshed < last.at
    /\ Unwrap(token).lifespan = Indefinite

----------------------------------------------------------------------------
\* C15: one call runs the refresh at most once, whether it succeeds or
\* fails.
C15_AtMostOnce ==
    last.called => last.spawned \in {0, 1}

C15_Witness ==
    /\ RefreshFailed
    /\ PreKind("SingleUse")
    /\ last.spawned = 1

----------------------------------------------------------------------------
\* the cached token, looked at at time at, would be refreshed by a call
Stale(cached, at) ==
    /\ IsSome(cached)
    /\ \/ Unwrap(cached).lifespan = SingleUse
       \/ /\ Unwrap(cached).lifespan.kind = "Seconds"
          /\ (at - Unwrap(cached).last_refreshed) \div TicksPerSec
                > Unwrap(cached).lifespan.secs \div 2

Valid(cached, at) == IsSome(cached) /\ ~Stale(cached, at)

\* this step is a call whose refresh ran and succeeded
RefreshedInStep ==
    /\ last'.called
    /\ last'.pre = token
    /\ last'.at = now
    /\ last'.spawned = 1
    /\ refresh_token(refresh_cmd, last'.out, now).ok

\* C16: the cache leaves Empty only by a successful refresh, a stale token
\* becomes valid only by a successful refresh, and a provider that has a
\* token cached never goes back to Empty.
C16_StateMachine ==
    [][ /\ (token = None /\ token' # None) => RefreshedInStep
        /\ (Stale(token, now) /\ Valid(token', now')) => RefreshedInStep
        /\ token # None => token' # None ]_vars

C16_Witness ==
    /\ RefreshSucceeded
    /\ Stale(last.pre, last.at)
    /\ Valid(token, now)
    /\ now > last.at

----------------------------------------------------------------------------
----------------------------------------------------------------------------
----------------------------------------------------------------------------
\* C19: a header built from a Seconds(n) token is returned when the token's
\* age in whole seconds is at most floor(n/2), hence less than n.
C19_NeverExpired ==
    ( /\ last.called
      /\ last.ret.ok
      /\ last.ret.val # None
      /\ IsSome(token)
      /\ Unwrap(token).lifespan.kind = "Seconds" ) =>
        LET n == Unwrap(token).lifespan.secs
            age == (last.at - Unwrap(token).last_refreshed) \div TicksPerSec
        IN  /\ Unwrap(last.ret.val) = BearerHeader(Unwrap(token).token)
            /\ age <= n \div 2
            /\ age < n

C19_Witness ==
    /\ last.called
    /\ last.ret.ok
    /\ last.ret.val # None
    /\ last.spawned = 0
    /\ IsSome(token)
    /\ Unwrap(token).lifespan = Seconds(10)
    /\ (last.at - Unwrap(token).last_refreshed) \div TicksPerSec = 5

====
